---- MODULE Spec2Model ----
(***************************************************************************)
(* Model of src/agent.py: the recommend_phone filter over the phone table  *)
(* and the interactive loop of main() that relays function-call requests   *)
(* of the remote agent to recommend_phone.                                 *)
(*                                                                         *)
(* Prices, storage and screen sizes are small integers.  Strings that the  *)
(* code inspects character by character (Brand, the brand argument, the    *)
(* user prompt) are sequences of one-character strings.                    *)
(***************************************************************************)
EXTENDS Integers, Sequences, FiniteSets, TLC

VARIABLES
    table,        \* the rows pd.read_csv returns for phones.csv
    query,        \* arguments of the recommend_phone call under study
    fstage,       \* "idle" | "call" | "returned"
    filtered,     \* index labels of the rows left after the filters
    sorted,       \* index labels after sort_values(by="Price")
    head,         \* index labels after head(3)
    result,       \* the value json.dumps serialises
    pc,           \* where main() stands
    response,     \* main's variable response
    idx,          \* position of "for item in response.output"
    input_list,   \* main's variable input_list
    console,      \* what the current turn has printed
    requests,     \* the responses.create calls of the current turn
    firstOutput,  \* output items of the turn's first response
    calls,        \* the places line 169 was reached in the current turn
    convDeleted,  \* number of conversations.delete calls
    agentDeleted, \* number of agents.delete_version calls
    exitCause     \* why the loop was left

fvars == <<table, query, fstage, filtered, sorted, head, result>>

mvars == <<pc, response, idx, input_list, console, requests, firstOutput,
           calls, convDeleted, agentDeleted, exitCause>>

vars == <<fvars, mvars>>

\* ---------------------------------------------------------------- bounds

MaxRows == 4
MaxItems == 3

\* head(3)
TopN == 3

\* ---------------------------------------------------------------- strings

\* str.lower() on one character (the letters the model uses).
Lower(c) ==
    CASE c = "A" -> "a"
      [] c = "B" -> "b"
      [] c = "C" -> "c"
      [] c = "Q" -> "q"
      [] c = "U" -> "u"
      [] c = "I" -> "i"
      [] c = "T" -> "t"
      [] OTHER -> c

LowerStr(s) == [i \in 1..Len(s) |-> Lower(s[i])]

\* Series.str.contains(pat) with its default regex=True: re.search(pat, s).
\* Of the regular-expression syntax the model has the metacharacter ".",
\* which matches any character; every other character matches itself.
StrContains(s, pat) ==
    \E k \in 0..(Len(s) - Len(pat)) :
        \A j \in 1..Len(pat) : pat[j] = "." \/ pat[j] = s[k + j]

\* ---------------------------------------------------------------- data

PhoneA == [Name |-> "PhoneA", Brand |-> <<"A", "b">>, Price |-> 2,
           Storage |-> 1, ScreenSize |-> 2]
PhoneB == [Name |-> "PhoneB", Brand |-> <<"c">>, Price |-> 1,
           Storage |-> 2, ScreenSize |-> 2]
PhoneC == [Name |-> "PhoneC", Brand |-> <<"A", "b">>, Price |-> 1,
           Storage |-> 1, ScreenSize |-> 1]
PhoneD == [Name |-> "PhoneD", Brand |-> <<"b", "C">>, Price |-> 3,
           Storage |-> 2, ScreenSize |-> 2]

Phones == {PhoneA, PhoneB, PhoneC, PhoneD}

Tables == UNION {[1..n -> Phones] : n \in 1..MaxRows}

ExampleTable == <<PhoneA, PhoneB, PhoneC, PhoneD>>

Budgets == {-1, 0, 1, 2, 3}
QueryBrands == {<<>>, <<"a">>, <<"A", "B">>, <<".">>, <<"c">>}
MinStorages == {0, 1, 2}
MinScreenSizes == {0, 2}

Queries == [budget : Budgets, brand : QueryBrands,
            min_storage : MinStorages, min_screen_size : MinScreenSizes]

NoMatchMessage == "No phones found matching your criteria. Try adjusting filters."

None == [none |-> TRUE]

\* ---------------------------------------------------------------- recommend_phone

Min(a, b) == IF a <= b THEN a ELSE b

\* df[df["Price"] <= budget]
PriceFilter(tbl, q) == {i \in DOMAIN tbl : tbl[i].Price <= q.budget}

\* if brand: filtered[filtered["Brand"].str.lower().str.contains(brand.lower())]
BrandFilter(tbl, q, f) ==
    IF q.brand # <<>>
    THEN {i \in f : StrContains(LowerStr(tbl[i].Brand), LowerStr(q.brand))}
    ELSE f

\* if min_storage > 0: filtered[filtered["Storage"] >= min_storage]
StorageFilter(tbl, q, f) ==
    IF q.min_storage > 0
    THEN {i \in f : tbl[i].Storage >= q.min_storage}
    ELSE f

\* if min_screen_size > 0: filtered[filtered["ScreenSize"] >= min_screen_size]
ScreenFilter(tbl, q, f) ==
    IF q.min_screen_size > 0
    THEN {i \in f : tbl[i].ScreenSize >= q.min_screen_size}
    ELSE f

ApplyFilters(tbl, q) ==
    ScreenFilter(tbl, q, StorageFilter(tbl, q, BrandFilter(tbl, q, PriceFilter(tbl, q))))

\* filtered.empty
IsEmptyNever(f) == FALSE

IsEmpty(f) == f = {}

\* filtered.sort_values(by="Price"): kind defaults to "quicksort", which
\* orders the rows by Price and promises nothing about rows of equal Price.
\* The set of every order the call may produce.
RECURSIVE SortValues(_, _)
SortValues(tbl, f) ==
    IF f = {}
    THEN {<<>>}
    ELSE LET cheapest == {i \in f : \A j \in f : tbl[i].Price <= tbl[j].Price}
         IN  UNION {{<<i>> \o s : s \in SortValues(tbl, f \ {i})} : i \in cheapest}

\* filtered.head(3)
TailRows(s) == SubSeq(s, Len(s) - Min(TopN, Len(s)) + 1, Len(s))

HeadRows(s) == SubSeq(s, 1, Min(TopN, Len(s)))

\* .to_dict(orient="records"): the rows, without their index labels
ToDictRecords(tbl, s) == [k \in 1..Len(s) |-> tbl[s[k]]]

\* Every run of recommend_phone(budget, brand, min_storage, min_screen_size)
\* over tbl: the intermediate frames and the returned value.
recommend_phone(tbl, q) ==
    LET f == ApplyFilters(tbl, q)
    IN  IF IsEmpty(f)
        THEN {[filtered |-> f, sorted |-> <<>>, head |-> <<>>,
               result |-> [message |-> NoMatchMessage]]}
        ELSE {[filtered |-> f, sorted |-> s, head |-> HeadRows(s),
               result |-> [recommendations |-> ToDictRecords(tbl, HeadRows(s))]]
              : s \in SortValues(tbl, f)}

\* ---------------------------------------------------------------- function-call arguments

FunctionName == "recommend_phone"

ParamNames == {"budget", "brand", "min_storage", "min_screen_size"}

Num(n) == [t |-> "number", v |-> n]
Str(s) == [t |-> "string", v |-> s]

ArgBudget == "{\"budget\": 2}"
ArgBrand == "{\"budget\": 3, \"brand\": \"ab\"}"
ArgUndecodable == "{\"budget\": "
ArgNoBudget == "{\"brand\": \"ab\"}"
ArgTextBudget == "{\"budget\": \"cheap\"}"

Arguments == {ArgBudget, ArgBrand, ArgUndecodable, ArgNoBudget, ArgTextBudget}

\* json.loads(item.arguments): the decoded dict, or JSONDecodeError
JsonLoads(a) ==
    CASE a = ArgBudget -> [ok |-> TRUE, value |-> [budget |-> Num(2)]]
      [] a = ArgBrand ->
            [ok |-> TRUE, value |-> [budget |-> Num(3), brand |-> Str(<<"a", "b">>)]]
      [] a = ArgNoBudget -> [ok |-> TRUE, value |-> [brand |-> Str(<<"a", "b">>)]]
      [] a = ArgTextBudget -> [ok |-> TRUE, value |-> [budget |-> Str(<<"c">>)]]
      [] OTHER -> [ok |-> FALSE]

\* The value a keyword takes in recommend_phone(**d): the one passed, or the
\* default of the signature.
Param(d, name, default) == IF name \in DOMAIN d THEN d[name].v ELSE default

\* recommend_phone(**json.loads(item.arguments)) up to the first comparison
\* with the table: the exception raised, or the query the filters run with.
\* budget has no default; df["Price"] <= budget raises TypeError for a str.
Invoke(a) ==
    LET j == JsonLoads(a)
    IN  IF ~j.ok
        THEN [raised |-> "JSONDecodeError"]
        ELSE IF "budget" \notin DOMAIN j.value \/ ~(DOMAIN j.value \subseteq ParamNames)
        THEN [raised |-> "TypeError"]
        ELSE IF j.value.budget.t # "number"
        THEN [raised |-> "TypeError"]
        ELSE [raised |-> "none",
              q |-> [budget |-> j.value.budget.v,
                     brand |-> Param(j.value, "brand", <<>>),
                     min_storage |-> Param(j.value, "min_storage", 0),
                     min_screen_size |-> Param(j.value, "min_screen_size", 0)]]

\* ---------------------------------------------------------------- the remote agent

Message == [type |-> "message"]

FunctionCall(name, id, a) ==
    [type |-> "function_call", name |-> name, call_id |-> id, arguments |-> a]

CallIds == {"call_1", "call_2"}

Items ==
    {Message, FunctionCall("other_tool", "call_1", ArgBudget)}
        \cup {FunctionCall(FunctionName, id, a) : id \in CallIds, a \in Arguments}

Outputs == UNION {[1..n -> Items] : n \in 0..MaxItems}

Failed == [status |-> "failed", output |-> <<>>, output_text |-> ""]

\* What responses.create may return for the user's message.
FirstResponses ==
    {Failed} \cup {[status |-> "completed", output |-> o, output_text |-> "answer"]
                   : o \in Outputs}

\* What responses.create may return for the function outputs.
SecondResponses ==
    {Failed,
     [status |-> "completed", output |-> <<Message>>, output_text |-> "final"],
     [status |-> "completed",
      output |-> <<FunctionCall(FunctionName, "call_2", ArgBudget)>>,
      output_text |-> ""]}

\* input("You: "): a line, or end of input
EndOfInput == <<"EOF">>

UserInputs == {<<"h", "i">>, <<"q", "u", "i", "t">>, <<"Q", "U", "I", "T">>, EndOfInput}

FunctionCallOutput(id, out) ==
    [type |-> "function_call_output", call_id |-> id, output |-> out]

\* ---------------------------------------------------------------- main

FilterIdle ==
    /\ query = None
    /\ fstage = "idle"
    /\ filtered = {}
    /\ sorted = <<>>
    /\ head = <<>>
    /\ result = None

\* The state at "while True": the agent and the conversation are created.
MainInit ==
    /\ pc = "input"
    /\ response = None
    /\ idx = 0
    /\ input_list = <<>>
    /\ console = <<>>
    /\ requests = <<>>
    /\ firstOutput = <<>>
    /\ calls = <<>>
    /\ convDeleted = 0
    /\ agentDeleted = 0
    /\ exitCause = "none"

Init ==
    /\ table = ExampleTable
    /\ FilterIdle
    /\ MainInit

\* An exception nothing catches: main() is left, lines 192-197 do not run.
Raise(e) ==
    /\ pc' = "crashed"
    /\ exitCause' = e

\* user_prompt = input("You: "); the quit test; conversations.items.create
\* and the call of responses.create for the user's message
ReadInput ==
    /\ pc = "input"
    /\ \E user_prompt \in UserInputs :
        IF user_prompt = EndOfInput
        THEN /\ Raise("EOFError")
             /\ UNCHANGED <<response, idx, input_list, console, requests,
                            firstOutput, calls>>
        ELSE IF LowerStr(user_prompt) = <<"q", "u", "i", "t">>
        THEN /\ pc' = "delete_conversation"
             /\ exitCause' = "quit"
             /\ UNCHANGED <<response, idx, input_list, console, requests,
                            firstOutput, calls>>
        ELSE /\ pc' = "first_response"
             /\ console' = <<>>
             /\ requests' = <<>>
             /\ firstOutput' = <<>>
             /\ calls' = <<>>
             /\ input_list' = <<>>
             /\ idx' = 0
             /\ UNCHANGED <<response, exitCause>>
    /\ UNCHANGED <<fvars, convDeleted, agentDeleted>>

\* response = responses.create(...); if response.status == "failed": print, continue
FirstResponse ==
    /\ pc = "first_response"
    /\ \E r \in FirstResponses :
        /\ response' = r
        /\ requests' = Append(requests, [input |-> <<>>, status |-> r.status])
        /\ firstOutput' = r.output
        /\ IF r.status = "failed"
           THEN /\ console' = Append(console, "Error")
                /\ pc' = "input"
                /\ UNCHANGED <<idx, input_list>>
           ELSE /\ input_list' = <<>>
                /\ idx' = 1
                /\ pc' = "dispatch"
                /\ UNCHANGED console
    /\ UNCHANGED <<fvars, calls, convDeleted, agentDeleted, exitCause>>

\* if item.type == "function_call": if item.name == "recommend_phone":
IsOurCallAnyName(item) == item.type = "function_call"

IsOurCall(item) ==
    IF item.type = "function_call" THEN item.name = FunctionName ELSE FALSE

\* One pass of the body of "for item in response.output"
DispatchItem ==
    /\ pc = "dispatch"
    /\ idx <= Len(response.output)
    /\ LET item == response.output[idx]
       IN  IF IsOurCall(item)
           THEN /\ calls' = Append(calls, [resp |-> Len(requests), idx |-> idx])
                /\ LET c == Invoke(item.arguments)
                   IN  IF c.raised # "none"
                       THEN /\ Raise(c.raised)
                            /\ UNCHANGED <<idx, input_list>>
                       ELSE /\ \E run \in recommend_phone(table, c.q) :
                                 input_list' = Append(input_list,
                                     FunctionCallOutput(item.call_id, run.result))
                            /\ idx' = idx + 1
                            /\ UNCHANGED <<pc, exitCause>>
           ELSE /\ idx' = idx + 1
                /\ UNCHANGED <<pc, exitCause, input_list, calls>>
    /\ UNCHANGED <<fvars, response, console, requests, firstOutput,
                   convDeleted, agentDeleted>>

\* if input_list: response = responses.create(input=input_list, ...)
ResubmitAgain ==
    /\ pc = "dispatch"
    /\ idx > Len(response.output)
    /\ input_list # <<>>
    /\ \E r \in SecondResponses :
        /\ response' = r
        /\ requests' = Append(requests, [input |-> input_list, status |-> r.status])
    /\ idx' = 1
    /\ input_list' = <<>>
    /\ UNCHANGED <<fvars, pc, console, firstOutput, calls,
                   convDeleted, agentDeleted, exitCause>>

Resubmit ==
    /\ pc = "dispatch"
    /\ idx > Len(response.output)
    /\ input_list # <<>>
    /\ \E r \in SecondResponses :
        /\ response' = r
        /\ requests' = Append(requests, [input |-> input_list, status |-> r.status])
    /\ pc' = "display"
    /\ UNCHANGED <<fvars, idx, input_list, console, firstOutput, calls,
                   convDeleted, agentDeleted, exitCause>>

\* "if input_list:" with an empty input_list
NoOutputs ==
    /\ pc = "dispatch"
    /\ idx > Len(response.output)
    /\ input_list = <<>>
    /\ pc' = "display"
    /\ UNCHANGED <<fvars, response, idx, input_list, console, requests,
                   firstOutput, calls, convDeleted, agentDeleted, exitCause>>

\* print(f"Agent: {response.output_text}")
Display ==
    /\ pc = "display"
    /\ console' = Append(console, "Agent")
    /\ pc' = "input"
    /\ UNCHANGED <<fvars, response, idx, input_list, requests, firstOutput,
                   calls, convDeleted, agentDeleted, exitCause>>

\* openai_client.conversations.delete(conversation_id=conversation.id)
DeleteConversation ==
    /\ pc = "delete_conversation"
    /\ convDeleted' = convDeleted + 1
    /\ pc' = "delete_agent"
    /\ UNCHANGED <<fvars, response, idx, input_list, console, requests,
                   firstOutput, calls, agentDeleted, exitCause>>

\* project_client.agents.delete_version(...)
DeleteAgent ==
    /\ pc = "delete_agent"
    /\ agentDeleted' = agentDeleted + 1
    /\ pc' = "done"
    /\ UNCHANGED <<fvars, response, idx, input_list, console, requests,
                   firstOutput, calls, convDeleted, exitCause>>

Next ==
    \/ ReadInput
    \/ FirstResponse
    \/ DispatchItem
    \/ Resubmit
    \/ NoOutputs
    \/ Display
    \/ DeleteConversation
    \/ DeleteAgent

Spec == Init /\ [][Next]_vars

\* ---------------------------------------------------------------- the filter alone

FilterInit ==
    /\ table \in Tables
    /\ query \in Queries
    /\ fstage = "call"
    /\ filtered = {}
    /\ sorted = <<>>
    /\ head = <<>>
    /\ result = None
    /\ MainInit

\* One call recommend_phone(**query) over table
RecommendPhone ==
    /\ fstage = "call"
    /\ \E run \in recommend_phone(table, query) :
        /\ filtered' = run.filtered
        /\ sorted' = run.sorted
        /\ head' = run.head
        /\ result' = run.result
    /\ fstage' = "returned"
    /\ UNCHANGED <<table, query, mvars>>

FilterNext == RecommendPhone

FilterSpec == FilterInit /\ [][FilterNext]_vars

\* ---------------------------------------------------------------- claims: the filter

Range(s) == {s[k] : k \in 1..Len(s)}

Returned == IF "recommendations" \in DOMAIN result THEN result.recommendations ELSE <<>>

\* s contains pat as a literal substring
LiteralContains(s, pat) ==
    \E k \in 0..(Len(s) - Len(pat)) : \A j \in 1..Len(pat) : pat[j] = s[k + j]

\* The conditions of the filtering policy, for one record
Qualifies(r, q) ==
    /\ r.Price <= q.budget
    /\ q.brand = <<>> \/ LiteralContains(LowerStr(r.Brand), LowerStr(q.brand))
    /\ ~(q.min_storage > 0) \/ r.Storage >= q.min_storage
    /\ ~(q.min_screen_size > 0) \/ r.ScreenSize >= q.min_screen_size

\* C1: the candidate set recommend_phone selects from is exactly the records
\* with price <= budget, brand empty or contained in the record's brand as a
\* case-insensitive literal substring, and storage and screen size at least
\* the minimum when the minimum is > 0; every returned record satisfies them.
C1_CandidatesAreTheQualifyingRecords ==
    fstage = "returned" =>
        /\ filtered = {i \in DOMAIN table : Qualifies(table[i], query)}
        /\ \A k \in 1..Len(Returned) : Qualifies(Returned[k], query)

\* C2: the returned recommendations are non-decreasing by price, and records
\* of equal price keep the relative order they have in the table.
C2_SortedByPriceAndStable ==
    (fstage = "returned" /\ "recommendations" \in DOMAIN result) =>
        \A a, b \in 1..Len(head) :
            a < b =>
                /\ table[head[a]].Price <= table[head[b]].Price
                /\ table[head[a]].Price = table[head[b]].Price => head[a] < head[b]

\* C3: at most 3 records are returned, the first min(3, n) of the n filtered
\* records in price order: no omitted filtered record is strictly cheaper
\* than a returned one, and with n <= 3 every filtered record is returned.
C3_TruncationKeepsTheCheapest ==
    fstage = "returned" =>
        LET n == Cardinality(filtered)
        IN  /\ Len(Returned) <= 3
            /\ Len(Returned) = Min(3, n)
            /\ Len(head) = Len(Returned)
            /\ \A k \in 1..Len(head) :
                    head[k] \in filtered /\ Returned[k] = table[head[k]]
            /\ \A a, b \in 1..Len(head) : a # b => head[a] # head[b]
            /\ n > 0 =>
                /\ Len(sorted) = n
                /\ Range(sorted) = filtered
                /\ \A a, b \in 1..n :
                        a < b => table[sorted[a]].Price <= table[sorted[b]].Price
                /\ head = SubSeq(sorted, 1, Min(3, n))
            /\ \A i \in filtered \ Range(head) :
                    \A k \in 1..Len(head) : table[i].Price >= table[head[k]].Price
            /\ n <= 3 => Range(head) = filtered

\* More than 3 records pass the filters and 3 are returned.
C3_Witness ==
    /\ fstage = "returned"
    /\ Cardinality(filtered) > 3
    /\ Len(Returned) = 3
    /\ \E i \in filtered \ Range(head) : table[i].Price > table[head[3]].Price

\* C4: the message variant is returned if and only if no record passes the
\* filters; a recommendations list is never empty.
C4_MessageIffNoMatch ==
    fstage = "returned" =>
        /\ DOMAIN result = {"message"} \/ DOMAIN result = {"recommendations"}
        /\ "message" \in DOMAIN result <=> filtered = {}
        /\ "recommendations" \in DOMAIN result => Len(result.recommendations) >= 1
        /\ "message" \in DOMAIN result => result.message = NoMatchMessage

\* Records are within budget and none passes the other filters.
C4_Witness ==
    /\ fstage = "returned"
    /\ PriceFilter(table, query) # {}
    /\ filtered = {}
    /\ DOMAIN result = {"message"}

\* C7: a call with a budget that is not a non-negative number returns an
\* InvalidArgument error, not a normal result.
C7_NegativeBudgetIsRejected ==
    (fstage = "returned" /\ query.budget < 0) =>
        /\ "message" \notin DOMAIN result
        /\ "recommendations" \notin DOMAIN result

\* ---------------------------------------------------------------- claims: the loop

AnyFailed == \E k \in 1..Len(requests) : requests[k].status = "failed"

\* C5: when a response of the turn has the failed status, at either stage,
\* the turn is abandoned: once it is over it has shown the failure and no
\* agent text.
C5_FailedTurnShowsTheFailure ==
    (AnyFailed /\ pc # "display") => console = <<"Error">>

IsRecommendCall(item) ==
    IF item.type = "function_call" THEN item.name = "recommend_phone" ELSE FALSE

Malformed(a) == a \in {ArgUndecodable, ArgNoBudget, ArgTextBudget}

\* C6: a recommend_phone request with malformed arguments ends the turn with
\* a reported error and the loop returns to the prompt.
C6_MalformedArgumentsAreReported ==
    [][(/\ pc = "dispatch"
        /\ idx <= Len(response.output)
        /\ IsRecommendCall(response.output[idx])
        /\ Malformed(response.output[idx].arguments))
       => (pc' = "input" /\ console' = Append(console, "Error"))]_vars

\* The results recommend_phone may return for the decoded arguments a
ArgsResults(a) ==
    LET c == Invoke(a)
    IN  IF c.raised = "none"
        THEN {run.result : run \in recommend_phone(table, c.q)}
        ELSE {}

\* The positions of the recommend_phone requests among items, in order
RecommendCalls(items) ==
    SelectSeq([k \in 1..Len(items) |-> k], LAMBDA k : IsRecommendCall(items[k]))

\* outs holds one output record per recommend_phone request of items, in order
Corresponds(outs, items) ==
    LET want == RecommendCalls(items)
    IN  /\ Len(outs) = Len(want)
        /\ \A k \in 1..Len(outs) :
            /\ outs[k].type = "function_call_output"
            /\ outs[k].call_id = items[want[k]].call_id
            /\ outs[k].output \in ArgsResults(items[want[k]].arguments)

\* C8: in a turn whose first response did not fail, the function outputs
\* correspond one-to-one and in order to the recommend_phone requests of the
\* response; messages and requests of another name yield no output and do
\* not invoke the filter.
C8_OutputsMatchTheRecommendCalls ==
    (Len(requests) >= 1 /\ requests[1].status = "completed") =>
        /\ idx \in 1..(Len(firstOutput) + 1)
        /\ Corresponds(input_list, SubSeq(firstOutput, 1, idx - 1))
        /\ \A k \in 1..Len(calls) : IsRecommendCall(firstOutput[calls[k].idx])
        /\ pc = "display" => idx = Len(firstOutput) + 1
        /\ Len(requests) >= 2 =>
            /\ idx = Len(firstOutput) + 1
            /\ requests[2].input = input_list

\* Two requests, a message between them: two outputs, in the requests' order.
C8_Witness ==
    /\ Len(requests) = 2
    /\ Len(firstOutput) = 3
    /\ IsRecommendCall(firstOutput[1]) /\ firstOutput[1].call_id = "call_2"
    /\ ~IsRecommendCall(firstOutput[2])
    /\ IsRecommendCall(firstOutput[3]) /\ firstOutput[3].call_id = "call_1"
    /\ Len(requests[2].input) = 2
    /\ requests[2].input[1].call_id = "call_2"
    /\ requests[2].input[2].call_id = "call_1"

\* C9: a turn resubmits function outputs at most once and only when there is
\* one, issues at most two response requests, never dispatches the requests
\* of the response to the resubmission, and is complete before the next
\* input is read.
C9_OneDispatchRoundPerTurn ==
    /\ Len(requests) <= 2
    /\ Len(requests) = 2 =>
        /\ requests[1].status = "completed"
        /\ requests[2].input # <<>>
        /\ pc \notin {"dispatch", "first_response"}
    /\ \A k \in 1..Len(calls) : calls[k].resp = 1
    /\ (pc = "input" /\ requests # <<>>) => Len(console) = 1
    /\ pc = "first_response" => (requests = <<>> /\ console = <<>>)

\* The response to the resubmission asks for another call; the turn ends.
C9_Witness ==
    /\ pc = "input"
    /\ Len(requests) = 2
    /\ response.output # <<>>
    /\ IsRecommendCall(response.output[1])
    /\ Len(calls) = 1
    /\ console = <<"Agent">>

\* C10: the loop ends only on the quit token or on end of input, and then the
\* conversation and the agent are each deleted exactly once, the conversation
\* first, and never while a turn is in progress.
C10_EveryExitCleansUp ==
    /\ pc \in {"done", "crashed"} =>
        /\ exitCause \in {"quit", "EOFError"}
        /\ convDeleted = 1
        /\ agentDeleted = 1
    /\ agentDeleted <= convDeleted
    /\ convDeleted <= 1
    /\ convDeleted > 0 => pc \in {"delete_agent", "done", "crashed"}

====
